---- MODULE Spec2Model ----
(***************************************************************************)
(* Model of slurm_pool.main.SlurmMultiNodePool: one pool instance, the two *)
(* artifact files it writes, the scheduler's submission command, and the   *)
(* worker-driver processes that execute the generated python script.       *)
(***************************************************************************)
EXTENDS Integers, Sequences, FiniteSets, Bags, TLC

\* ---------------------------------------------------------------- bounds
MaxTasks == 3
MaxArgs == 3
MaxOps == 2

\* ---------------------------------------------------------------- inputs
\* Task functions a caller can pass.  "f" is a module-level def whose source
\* inspect.getsource can retrieve; "len" is a builtin, for which
\* inspect.getsource raises TypeError.
Functions == {"f", "len"}

HasSource(fn) == fn = "f"

\* A dict of keyword arguments is a set of <<name, value>> pairs.
EmptyDict == {}

KwargsSet == {EmptyDict, {<<"x", 1>>}}

\* Argument lists *args (literal-representable ints): one list of every
\* length 0..MaxArgs, 10, 20, 10, 40, ...: the third value repeats the first.
ArgLists == {[j \in 1..n |-> IF j = 3 THEN 10 ELSE 10 * j] : n \in 0..MaxArgs}

\* Constructor arguments <<python_script_name, slurm_script_name>>: both
\* None, or both given by the caller.
NameArgs == {<<"None", "None">>, <<"worker.py", "job.slurm">>}

\* The remaining constructor arguments, copied to the instance unchanged.
Resources == [job_name |-> "job", log_dir |-> "logs", time_limit |-> "00:10:00",
              mem_limit |-> "1G", email |-> "me@x", partition |-> "owners", cpus_per_task |-> 1]

\* __init__: the attributes that describe the job; uid = uuid.uuid4() is
\* drawn once and qualifies the names the caller did not give.
JobSpec(python_script_name, slurm_script_name) ==
    [resources |-> Resources,
     slurm_script_name |-> IF slurm_script_name = "None" THEN "job_uid.slurm" ELSE slurm_script_name,
     python_script_name |-> IF python_script_name = "None" THEN "job_uid.py" ELSE python_script_name]

\* Exit codes of the external sbatch command.
ExitCodes == {0, 1}

\* Indices a worker-driver process can be started with (sys.argv[1]).
TaskIds == 0..MaxTasks

\* ---------------------------------------------------------------- values
\* Python None / a set attribute, kept in one record shape.
None == [some |-> FALSE, v |-> <<>>]

Some(x) == [some |-> TRUE, v |-> x]

NoKwargs == [some |-> FALSE, v |-> EmptyDict]

\* A file that does not exist on disk.
NoPyFile == [exists |-> FALSE, function |-> "None", kwargs |-> NoKwargs, mapping |-> <<>>]

NoSlurmFile == [exists |-> FALSE, array_upper_limit |-> 0, directives |-> Resources, script |-> ""]

\* Python truthiness of the attributes tested by the code.
Truthy(m) == m.some /\ m.v # <<>>

TruthyKwargs(k) == k.some /\ k.v # EmptyDict

\* repr() of an int literal as interpolated by the f-string, and its
\* evaluation by the interpreter that runs the generated script.
Lit(x) == <<"lit", x>>

Unlit(t) == t[2]

\* f"{self._task2args_map}": text of a dict of tuples.
ReprMapping(m) == [k \in DOMAIN m |-> [j \in 1..Len(m[k]) |-> Lit(m[k][j])]]

EvalMapping(t) == [k \in DOMAIN t |-> [j \in 1..Len(t[k]) |-> Unlit(t[k][j])]]

\* f"kwargs = {self._kwargs}": text of None or of a dict.
ReprKwargs(k) == [some |-> k.some, v |-> {<<p[1], Lit(p[2])>> : p \in k.v}]

EvalKwargs(t) == [some |-> t.some, v |-> {<<p[1], Unlit(p[2])>> : p \in t.v}]

\* ---------------------------------------------------------------- state
VARIABLES num_tasks, task_function, task2args_map, kwargs, jobspec,
          pyFile, slurmFile, last, workers, ops

poolVars == <<num_tasks, task_function, task2args_map, kwargs, jobspec, pyFile, slurmFile, last>>

vars == <<num_tasks, task_function, task2args_map, kwargs, jobspec, pyFile, slurmFile, last, workers, ops>>

\* The record a call works on: the instance's fields, the files, and the
\* trace of the call.
Cur == [num_tasks |-> num_tasks, task_function |-> task_function,
        task2args_map |-> task2args_map, kwargs |-> kwargs, jobspec |-> jobspec,
        pyFile |-> pyFile, slurmFile |-> slurmFile,
        steps |-> <<>>, err |-> "", warned |-> 0, log |-> <<>>, rc |-> -1]

\* ---------------------------------------------------------------- partition
\* Python args[i::n] for a tuple args (0-based offset i, step n >= 1).
SliceContiguous(args, i, n) == [j \in 1..(IF i < Len(args) THEN (IF i = 0 THEN Len(args) - n + 1 ELSE 1) ELSE 0) |-> args[(IF i = 0 THEN 0 ELSE Len(args) - n + i) + j]]

SliceFloor(args, i, n) == [j \in 1..(Len(args) \div n) |-> args[i + (j - 1) * n + 1]]

Slice(args, i, n) == [j \in 1..(IF i < Len(args) THEN (Len(args) - i + n - 1) \div n ELSE 0) |-> args[i + (j - 1) * n + 1]]

create_task2args_mappingNoShrink(s, args) ==
    LET mapping == [i \in 0..(s.num_tasks - 1) |-> Slice(args, i, s.num_tasks)]
    IN  [s EXCEPT !.task2args_map = Some(mapping), !.steps = Append(@, "map")]

create_task2args_mappingShrinkAfter(s, args) ==
    LET short == Len(args) < s.num_tasks
        mapping == [i \in 0..(s.num_tasks - 1) |-> Slice(args, i, s.num_tasks)]
    IN  [s EXCEPT !.num_tasks = IF short THEN Len(args) ELSE @,
                  !.warned = IF short THEN @ + 1 ELSE @,
                  !.task2args_map = Some(mapping),
                  !.steps = Append(@, "map")]

create_task2args_mappingResize(s, args) ==
    LET differs == Len(args) # s.num_tasks
        n == Len(args)
        mapping == [i \in 0..(n - 1) |-> Slice(args, i, n)]
    IN  [s EXCEPT !.num_tasks = n,
                  !.warned = IF differs THEN @ + 1 ELSE @,
                  !.task2args_map = Some(mapping),
                  !.steps = Append(@, "map")]

create_task2args_mapping(s, args) ==
    LET short == Len(args) < s.num_tasks
        n == IF short THEN Len(args) ELSE s.num_tasks
        mapping == [i \in 0..(n - 1) |-> Slice(args, i, n)]
    IN  [s EXCEPT !.num_tasks = n,
                  !.warned = IF short THEN @ + 1 ELSE @,
                  !.task2args_map = Some(mapping),
                  !.steps = Append(@, "map")]

\* ---------------------------------------------------------------- artifacts
Raise(s, e) == [s EXCEPT !.err = e]

create_python_scriptUnchecked(s) ==
    [s EXCEPT !.pyFile = [exists |-> TRUE, function |-> s.task_function,
                          kwargs |-> ReprKwargs(s.kwargs),
                          mapping |-> ReprMapping(s.task2args_map.v)],
              !.steps = Append(@, "py"),
              !.log = Append(@, "python script created")]

create_python_scriptIsNone(s) ==
    IF s.task_function = "None" THEN Raise(s, "ValueError: Task function not set")
    ELSE IF ~s.task2args_map.some THEN Raise(s, "ValueError: Arguments mapping not set")
    ELSE IF ~HasSource(s.task_function) THEN Raise(s, "TypeError")
    ELSE create_python_scriptUnchecked(s)

create_python_script(s) ==
    IF s.task_function = "None" THEN Raise(s, "ValueError: Task function not set")
    ELSE IF ~Truthy(s.task2args_map) THEN Raise(s, "ValueError: Arguments mapping not set")
    ELSE IF ~HasSource(s.task_function) THEN Raise(s, "TypeError")
    ELSE [s EXCEPT !.pyFile = [exists |-> TRUE, function |-> s.task_function,
                               kwargs |-> ReprKwargs(s.kwargs),
                               mapping |-> ReprMapping(s.task2args_map.v)],
                   !.steps = Append(@, "py"),
                   !.log = Append(@, "python script created")]

create_slurm_scriptOffByOne(s) ==
    [s EXCEPT !.slurmFile = [exists |-> TRUE, array_upper_limit |-> s.num_tasks,
                             directives |-> s.jobspec.resources,
                             script |-> s.jobspec.python_script_name],
              !.steps = Append(@, "slurm"),
              !.log = Append(@, "slurm script created")]

create_slurm_scriptDecrements(s) ==
    [s EXCEPT !.num_tasks = @ - 1,
              !.slurmFile = [exists |-> TRUE, array_upper_limit |-> s.num_tasks - 1,
                             directives |-> s.jobspec.resources,
                             script |-> s.jobspec.python_script_name],
              !.steps = Append(@, "slurm"),
              !.log = Append(@, "slurm script created")]

create_slurm_script(s) ==
    [s EXCEPT !.slurmFile = [exists |-> TRUE, array_upper_limit |-> s.num_tasks - 1,
                             directives |-> s.jobspec.resources,
                             script |-> s.jobspec.python_script_name],
              !.steps = Append(@, "slurm"),
              !.log = Append(@, "slurm script created")]

submit_jobUnchecked(s, rc) ==
    [s EXCEPT !.steps = Append(@, "submit"), !.rc = IF s.slurmFile.exists THEN rc ELSE 1,
              !.log = Append(@, "job submitted")]

\* subprocess.run(['sbatch', name], check=True): rc is sbatch's exit code;
\* sbatch cannot accept a descriptor file that does not exist.
submit_job(s, rc) ==
    LET code == IF s.slurmFile.exists THEN rc ELSE 1
        ran == [s EXCEPT !.steps = Append(@, "submit"), !.rc = code]
    IN  IF code # 0 THEN Raise(ran, "CalledProcessError")
        ELSE [ran EXCEPT !.log = Append(@, "job submitted")]

create_jobNoStop(s, fn, args, kw) ==
    LET s1 == [s EXCEPT !.task_function = fn, !.kwargs = Some(kw), !.steps = Append(@, "bind")]
        s2 == create_task2args_mapping(s1, args)
        s3 == create_python_script(s2)
    IN  create_slurm_script(s3)

create_job(s, fn, args, kw) ==
    LET s1 == [s EXCEPT !.task_function = fn, !.kwargs = Some(kw), !.steps = Append(@, "bind")]
        s2 == create_task2args_mapping(s1, args)
        s3 == create_python_script(s2)
    IN  IF s3.err # "" THEN s3 ELSE create_slurm_script(s3)

create_submit_job(s, fn, args, kw, rc) ==
    LET s1 == create_job(s, fn, args, kw)
    IN  IF s1.err # "" THEN s1 ELSE submit_job(s1, rc)

map(s, fn, args, kw, rc) == create_submit_job(s, fn, args, kw, rc)

\* ---------------------------------------------------------------- actions
\* The call returns (or raises): the instance and the files take the values
\* the call left, and last records the call.  The artifact files are not
\* rewritten while worker-driver processes read them; ops counts the calls up
\* to MaxOps.  last.again tells that the call repeats the call before it
\* (same method, function, arguments and kwargs).
Return(s, op, args) ==
    /\ \A t \in DOMAIN workers : workers[t].pc = "idle"
    /\ ops' = IF ops < MaxOps THEN ops + 1 ELSE ops
    /\ UNCHANGED workers
    /\ num_tasks' = s.num_tasks
    /\ task_function' = s.task_function
    /\ task2args_map' = s.task2args_map
    /\ kwargs' = s.kwargs
    /\ jobspec' = s.jobspec
    /\ pyFile' = s.pyFile
    /\ slurmFile' = s.slurmFile
    /\ last' = [op |-> op, args |-> args, T |-> num_tasks, steps |-> s.steps,
                err |-> s.err, warned |-> s.warned, log |-> s.log, rc |-> s.rc,
                again |-> (last.op = op /\ last.args = args
                           /\ task_function = s.task_function /\ kwargs = s.kwargs)]

CreateJob == \E fn \in Functions, args \in ArgLists, kw \in KwargsSet :
    Return(create_job(Cur, fn, args, kw), "create_job", args)

CreateSubmitJob == \E fn \in Functions, args \in ArgLists, kw \in KwargsSet, rc \in ExitCodes :
    Return(create_submit_job(Cur, fn, args, kw, rc), "create_submit_job", args)

Map == \E fn \in Functions, args \in ArgLists, kw \in KwargsSet, rc \in ExitCodes :
    Return(map(Cur, fn, args, kw, rc), "map", args)

CreatePythonScript == Return(create_python_script(Cur), "create_python_script", <<>>)

CreateSlurmScript == Return(create_slurm_script(Cur), "create_slurm_script", <<>>)

SubmitJob == \E rc \in ExitCodes : Return(submit_job(Cur, rc), "submit_job", <<>>)

\* ---------------------------------------------------------------- worker-driver
\* One process `python3 <python_script_name> <task_id>` per task id.
IdleWorker == [pc |-> "idle", args_list |-> <<>>, kwargs |-> NoKwargs, calls |-> <<>>, err |-> "", log |-> <<>>]

\* mapping.get(task_id, [])
Get(mapping, task_id) == IF task_id \in DOMAIN mapping THEN mapping[task_id] ELSE <<>>

\* The generated __main__ block up to the call of wrapper.
mainSilentNoOp(file, task_id) ==
    LET args_list == Get(EvalMapping(file.mapping), task_id)
    IN  [IdleWorker EXCEPT !.pc = IF args_list = <<>> THEN "done" ELSE "running",
                           !.args_list = args_list,
                           !.kwargs = EvalKwargs(file.kwargs),
                           !.log = <<"processing arguments">>]

main(file, task_id) ==
    LET args_list == Get(EvalMapping(file.mapping), task_id)
    IN  IF ~file.exists THEN [IdleWorker EXCEPT !.pc = "failed", !.err = "FileNotFound"]
        ELSE IF args_list = <<>>
        THEN [IdleWorker EXCEPT !.pc = "failed", !.err = "ValueError: No arguments found"]
        ELSE [IdleWorker EXCEPT !.pc = "running",
                                !.args_list = args_list,
                                !.kwargs = EvalKwargs(file.kwargs),
                                !.log = <<"processing arguments">>]

\* One iteration of wrapper's loop: func(arg, **kwargs) or func(arg) on the
\* next value; raises tells whether the user function raises.  After the last
\* value the __main__ block logs the successful end.
wrapperSwallow(w, raises) ==
    LET arg == w.args_list[Len(w.calls) + 1]
        kw == IF TruthyKwargs(w.kwargs) THEN w.kwargs.v ELSE EmptyDict
        called == [w EXCEPT !.calls = Append(@, [arg |-> arg, kwargs |-> kw, raised |-> raises])]
    IN  IF Len(called.calls) = Len(w.args_list)
        THEN [called EXCEPT !.pc = "done", !.log = Append(@, "finished successfully")]
        ELSE called

wrapper(w, raises) ==
    LET arg == w.args_list[Len(w.calls) + 1]
        kw == IF TruthyKwargs(w.kwargs) THEN w.kwargs.v ELSE EmptyDict
        called == [w EXCEPT !.calls = Append(@, [arg |-> arg, kwargs |-> kw, raised |-> raises])]
    IN  IF raises THEN [called EXCEPT !.pc = "failed", !.err = "UserException"]
        ELSE IF Len(called.calls) = Len(w.args_list)
        THEN [called EXCEPT !.pc = "done", !.log = Append(@, "finished successfully")]
        ELSE called

\* Process exit status: 0 on a normal end, non-zero on an uncaught exception.
ExitCode(w) == IF w.pc = "done" THEN 0 ELSE IF w.pc = "failed" THEN 1 ELSE -1

Launch == \E t \in TaskIds :
    /\ ops < MaxOps
    /\ workers[t].pc = "idle"
    /\ workers' = [workers EXCEPT ![t] = main(pyFile, t)]
    /\ UNCHANGED <<poolVars, ops>>

Invoke == \E t \in TaskIds, raises \in BOOLEAN :
    /\ workers[t].pc = "running"
    /\ workers' = [workers EXCEPT ![t] = wrapper(workers[t], raises)]
    /\ UNCHANGED <<poolVars, ops>>

Init ==
    /\ num_tasks \in 1..MaxTasks
    /\ task_function = "None"
    /\ task2args_map = None
    /\ kwargs = NoKwargs
    /\ jobspec \in {JobSpec(n[1], n[2]) : n \in NameArgs}
    /\ pyFile = NoPyFile
    /\ slurmFile = NoSlurmFile
    /\ last = [op |-> "__init__", args |-> <<>>, T |-> num_tasks, steps |-> <<>>,
               err |-> "", warned |-> 0, log |-> <<>>, rc |-> -1, again |-> FALSE]
    /\ workers = [t \in TaskIds |-> IdleWorker]
    /\ ops = 0

\* The pool's operations alone.
Next == CreateJob \/ CreateSubmitJob \/ Map \/ CreatePythonScript \/ CreateSlurmScript \/ SubmitJob

Spec == Init /\ [][Next]_vars

\* The pool's operations and the worker-driver processes; processes are
\* started after fewer than MaxOps operations.  The pool is constructed
\* without script names.
InitRun == Init /\ jobspec = JobSpec("None", "None")

NextRun == Next \/ Launch \/ Invoke

SpecRun == InitRun /\ [][NextRun]_vars

\* ---------------------------------------------------------------- properties
\* Operations that run the partition step (bind, then _create_task2args_mapping).
JobOps == {"create_job", "create_submit_job", "map"}

\* Row k of the shards in task-index order, from task i on.
RECURSIVE Row(_, _, _)
Row(m, k, i) ==
    IF i \notin DOMAIN m THEN <<>>
    ELSE (IF Len(m[i]) >= k THEN <<m[i][k]>> ELSE <<>>) \o Row(m, k, i + 1)

\* The shards read round-robin: element k of shard 0, 1, ..., then k + 1.
RECURSIVE RoundRobin(_, _)
RoundRobin(m, k) ==
    IF \A i \in DOMAIN m : Len(m[i]) < k THEN <<>>
    ELSE Row(m, k, 0) \o RoundRobin(m, k + 1)

RECURSIVE SumSizes(_, _)
SumSizes(m, i) == IF i \notin DOMAIN m THEN 0 ELSE Len(m[i]) + SumSizes(m, i + 1)

IsPrefix(a, b) == Len(a) <= Len(b) /\ a = SubSeq(b, 1, Len(a))

ArrayIndices(file) == 0..file.array_upper_limit

Keys(file) == DOMAIN EvalMapping(file.mapping)

\* C1: after a call that partitions the argument list A over a task count
\* T >= 1, reading the shards of the mapping round-robin in task-index order
\* gives back A exactly (order and multiplicity preserved).
C1_RoundRobinReconstructs ==
    (last.op \in JobOps /\ last.T >= 1) =>
        /\ task2args_map.some
        /\ RoundRobin(task2args_map.v, 1) = last.args

C1_Witness ==
    /\ last.op = "create_job"
    /\ last.T = 2
    /\ last.args = <<10, 20, 10>>
    /\ task2args_map.v[0] = <<10, 10>>
    /\ task2args_map.v[1] = <<20>>

\* C2 (as claimed): every descriptor written declares the indices
\* 0..num_tasks-1, and whenever both artifact files exist the descriptor's
\* index set equals the key set of the mapping embedded in the python script.
C2_BoundsMatchMapping ==
    /\ ("slurm" \in {last.steps[j] : j \in DOMAIN last.steps}) =>
            slurmFile.array_upper_limit = num_tasks - 1
    /\ (pyFile.exists /\ slurmFile.exists) => ArrayIndices(slurmFile) = Keys(pyFile)

\* C3: a partition call with more tasks than arguments sets num_tasks to
\* len(args), warns exactly once and completes; otherwise it does not warn and
\* leaves num_tasks unchanged.
C3_ShrinkAndWarnOnce ==
    last.op \in JobOps =>
        /\ task2args_map.some
        /\ "map" \in {last.steps[j] : j \in DOMAIN last.steps}
        /\ IF last.T > Len(last.args)
           THEN num_tasks = Len(last.args) /\ last.warned = 1
           ELSE num_tasks = last.T /\ last.warned = 0

C3_Witness ==
    /\ last.op = "create_job"
    /\ last.T = 3
    /\ Len(last.args) = 2
    /\ num_tasks = 2
    /\ last.warned = 1
    /\ last.err = ""

\* C4: with 1 <= T <= len(A) the shard sizes differ by at most 1 and sum to
\* len(A).
C4_Balanced ==
    (last.op \in JobOps /\ last.T >= 1 /\ last.T <= Len(last.args)) =>
        /\ \A i, j \in DOMAIN task2args_map.v :
              Len(task2args_map.v[i]) - Len(task2args_map.v[j]) <= 1
        /\ SumSizes(task2args_map.v, 0) = Len(last.args)

C4_Witness ==
    /\ last.op \in JobOps
    /\ last.T = 2
    /\ Len(last.args) = 3
    /\ Len(task2args_map.v[0]) = 2
    /\ Len(task2args_map.v[1]) = 1

\* C5 (as claimed): create_slurm_script called while the task function is not
\* bound or the mapping is not built raises and writes no descriptor file.
C5_SlurmScriptChecksState ==
    [][(last'.op = "create_slurm_script" /\ (task_function = "None" \/ ~task2args_map.some))
         => (last'.err # "" /\ slurmFile' = slurmFile)]_vars

\* C6: create_python_script called while the task function is not bound or
\* the mapping is not built (None, or empty) raises ValueError and leaves the
\* python script file as it was.
C6_PythonScriptFailsFast ==
    [][(last'.op = "create_python_script" /\ (task_function = "None" \/ ~Truthy(task2args_map)))
         => /\ last'.err \in {"ValueError: Task function not set", "ValueError: Arguments mapping not set"}
            /\ last'.steps = <<>>
            /\ pyFile' = pyFile]_vars

C6_Witness ==
    /\ last.op = "create_python_script"
    /\ last.err = "ValueError: Arguments mapping not set"
    /\ task_function = "f"
    /\ pyFile.exists

\* C7: create_submit_job and map run bind, map, python script, descriptor,
\* submit in that order and stop at the first step that raises, so sbatch is
\* invoked only after both files were written by the same call; create_job
\* runs the first four steps and never submits.
C7_FixedStepOrder ==
    /\ last.op \in {"create_submit_job", "map"} =>
          /\ IsPrefix(last.steps, <<"bind", "map", "py", "slurm", "submit">>)
          /\ Len(last.steps) >= 2
          /\ (last.err = "" <=> (Len(last.steps) = 5 /\ "job submitted" \in {last.log[j] : j \in DOMAIN last.log}))
          /\ (Len(last.steps) = 5 =>
                /\ pyFile.exists /\ Keys(pyFile) = DOMAIN task2args_map.v
                /\ slurmFile.exists /\ slurmFile.array_upper_limit = num_tasks - 1)
    /\ last.op = "create_job" =>
          /\ IsPrefix(last.steps, <<"bind", "map", "py", "slurm">>)
          /\ Len(last.steps) >= 2
          /\ (last.err = "" <=> Len(last.steps) = 4)

C7_Witness ==
    /\ last.op = "create_submit_job"
    /\ last.steps = <<"bind", "map", "py", "slurm", "submit">>
    /\ last.err = ""
    /\ slurmFile.exists

\* What the python script file on disk gives task_id: its shard and the
\* keyword arguments shared by all invocations.
Shard(task_id) == Get(EvalMapping(pyFile.mapping), task_id)

SharedKwargs == IF TruthyKwargs(EvalKwargs(pyFile.kwargs)) THEN EvalKwargs(pyFile.kwargs).v ELSE EmptyDict

Logged(w, line) == line \in {w.log[j] : j \in DOMAIN w.log}

\* C8: a worker-driver process started with a task_id that has no (or an
\* empty) shard in the embedded mapping ends with the error "No arguments
\* found", a non-zero exit, no invocation of the user function and no log of a
\* successful end.
C8_MissingShardIsFatal ==
    \A t \in TaskIds :
        (workers[t].pc # "idle" /\ pyFile.exists /\ Shard(t) = <<>>) =>
            /\ workers[t].pc = "failed"
            /\ workers[t].err = "ValueError: No arguments found"
            /\ ExitCode(workers[t]) # 0
            /\ workers[t].calls = <<>>
            /\ workers[t].log = <<>>

C8_Witness ==
    /\ pyFile.exists
    /\ Keys(pyFile) = {0, 1}
    /\ workers[2].pc = "failed"
    /\ workers[2].err = "ValueError: No arguments found"
    /\ workers[0].pc = "done"

\* C9: a worker-driver process with a non-empty shard invokes the user
\* function on the values of the shard in shard order, each time with the same
\* shared kwargs; an invocation that raises is the last one, ends the process
\* with a non-zero exit and is never retried or resumed; the successful end is
\* logged only once every value was processed without exception.
C9_ShardInOrder ==
    \A t \in TaskIds :
        (workers[t].pc # "idle" /\ pyFile.exists /\ Shard(t) # <<>>) =>
            LET w == workers[t] IN
            /\ Len(w.calls) <= Len(Shard(t))
            /\ \A j \in DOMAIN w.calls :
                  /\ w.calls[j].arg = Shard(t)[j]
                  /\ w.calls[j].kwargs = SharedKwargs
                  /\ w.calls[j].raised => (j = Len(w.calls) /\ w.pc = "failed")
            /\ w.pc = "failed" <=> (w.calls # <<>> /\ w.calls[Len(w.calls)].raised)
            /\ w.pc = "failed" => (w.err = "UserException" /\ ExitCode(w) # 0)
            /\ Logged(w, "finished successfully") <=>
                  (w.pc = "done" /\ Len(w.calls) = Len(Shard(t)) /\ ExitCode(w) = 0
                   /\ \A j \in DOMAIN w.calls : ~w.calls[j].raised)
            /\ w.pc = "running" <=> (Len(w.calls) < Len(Shard(t)) /\ w.pc # "failed")

C9_Terminal ==
    [][\A t \in TaskIds : workers[t].pc \in {"failed", "done"} => workers'[t] = workers[t]]_vars

C9_SequentialNoRetry == []C9_ShardInOrder /\ C9_Terminal

C9_Witness ==
    \E t \in TaskIds :
        /\ Len(Shard(t)) = 3
        /\ workers[t].pc = "failed"
        /\ Len(workers[t].calls) = 2
        /\ ~workers[t].calls[1].raised
        /\ workers[t].calls[2].raised
        /\ workers[t].calls[1].kwargs = {<<"x", 1>>}

\* The arguments passed to the user function by the processes of the task
\* ids i, i + 1, ..., upper.
RECURSIVE Processed(_, _)
Processed(i, upper) ==
    IF i > upper \/ i \notin TaskIds THEN <<>>
    ELSE [j \in DOMAIN workers[i].calls |-> workers[i].calls[j].arg] \o Processed(i + 1, upper)

Count(seq, v) == Cardinality({j \in DOMAIN seq : seq[j] = v})

Scheduled == ArrayIndices(slurmFile)

\* C10: after a successful create_job, when one process per array index of
\* the descriptor runs (any interleaving, no exception of the user function):
\* no index ends with "No arguments found", the indices are the keys of the
\* embedded mapping, no argument is processed more often than it occurs in the
\* argument list, and once all processes ended every argument was processed
\* exactly as often as it occurs.
C10_ExactlyOnceAcrossTasks ==
    (last.op \in JobOps /\ Len(last.steps) >= 4 /\ last.T >= 1 /\ Len(last.args) >= 1
       /\ \A t \in Scheduled \cap TaskIds : workers[t].err # "UserException") =>
        /\ Scheduled \subseteq TaskIds
        /\ Scheduled = Keys(pyFile)
        /\ \A t \in Scheduled : workers[t].pc # "idle" =>
              (workers[t].pc \in {"running", "done"} /\ Shard(t) # <<>>)
        /\ \A v \in {last.args[j] : j \in DOMAIN last.args} :
              /\ Count(Processed(0, slurmFile.array_upper_limit), v) <= Count(last.args, v)
              /\ (\A t \in Scheduled : workers[t].pc = "done") =>
                    Count(Processed(0, slurmFile.array_upper_limit), v) = Count(last.args, v)

C10_Witness ==
    /\ last.op = "create_job"
    /\ last.err = ""
    /\ last.args = <<10, 20, 10>>
    /\ Scheduled = {0, 1}
    /\ \A t \in Scheduled : workers[t].pc = "done"
    /\ Len(Processed(0, slurmFile.array_upper_limit)) = 3

\* C11: a create_job that repeats the call before it (same function,
\* arguments and kwargs) ends as that call ended and leaves both artifact
\* files with the text they had: same embedded mapping, kwargs, array bounds
\* and script name, also when the first call shrank the task count.
C11_RegenerationIdempotent ==
    [][(last'.op = "create_job" /\ last'.again) =>
          /\ last'.err = last.err
          /\ last'.steps = last.steps
          /\ pyFile' = pyFile
          /\ slurmFile' = slurmFile
          /\ num_tasks' = num_tasks
          /\ task2args_map' = task2args_map]_vars

C11_Witness ==
    /\ last.op = "create_job"
    /\ last.again
    /\ last.err = ""
    /\ last.T = 2
    /\ Len(last.args) = 2
    /\ pyFile.exists
    /\ Keys(pyFile) = {0, 1}
    /\ slurmFile.array_upper_limit = 1

\* C12 (as claimed): once a submission succeeded, a submit_job that follows
\* it without a regeneration of the artifacts does not run sbatch again.
C12_SubmittedIsTerminal ==
    [][(last.op \in {"submit_job", "create_submit_job", "map"} /\ last.err = ""
        /\ last'.op = "submit_job") =>
           ~("submit" \in {last'.steps[j] : j \in DOMAIN last'.steps})]_vars

Steps(l) == {l.steps[j] : j \in DOMAIN l.steps}

Log(l) == {l.log[j] : j \in DOMAIN l.log}

\* C13 (as claimed): submit_job called while the artifact files have not both
\* been written raises without running sbatch.
C13_SubmitNeedsArtifacts ==
    [][(last'.op = "submit_job" /\ ~(pyFile.exists /\ slurmFile.exists)) =>
          (last'.err # "" /\ "submit" \notin Steps(last'))]_vars

\* C14: a call that runs sbatch runs it once, as its last step; a non-zero
\* exit code raises CalledProcessError to the caller and "job submitted" is
\* not logged, a zero exit code returns with "job submitted" as the last log
\* line; the instance and both artifact files are as they were before sbatch.
C14_StateAtSubmit ==
    (last.op \in {"submit_job", "create_submit_job", "map"} /\ "submit" \in Steps(last)) =>
        /\ last.steps[Len(last.steps)] = "submit"
        /\ Cardinality({j \in DOMAIN last.steps : last.steps[j] = "submit"}) = 1
        /\ last.rc # 0 => (last.err = "CalledProcessError" /\ "job submitted" \notin Log(last))
        /\ last.rc = 0 => (last.err = "" /\ last.log # <<>> /\ last.log[Len(last.log)] = "job submitted")
        /\ last.op \in {"create_submit_job", "map"} =>
              /\ pyFile = create_python_script(Cur).pyFile
              /\ slurmFile = create_slurm_script(Cur).slurmFile

C14_SubmitFrame ==
    [][last'.op = "submit_job" =>
          /\ "submit" \in Steps(last')
          /\ UNCHANGED <<pyFile, slurmFile, num_tasks, task_function, task2args_map, kwargs, jobspec>>]_vars

C14_SubmissionFailurePropagates == []C14_StateAtSubmit /\ C14_SubmitFrame

C14_Witness ==
    /\ last.op = "create_submit_job"
    /\ last.rc = 1
    /\ last.err = "CalledProcessError"
    /\ last.steps = <<"bind", "map", "py", "slurm", "submit">>
    /\ pyFile.exists
    /\ slurmFile.exists

\* C15: whenever the mapping has been built, its keys are exactly
\* 0..num_tasks-1 and none of its shards is empty.
C15_KeysAreTaskIndices ==
    task2args_map.some =>
        /\ DOMAIN task2args_map.v = 0..(num_tasks - 1)
        /\ \A i \in DOMAIN task2args_map.v : task2args_map.v[i] # <<>>

C15_Witness ==
    /\ last.op \in JobOps
    /\ last.T = 3
    /\ Len(last.args) = 2
    /\ DOMAIN task2args_map.v = {0, 1}
    /\ num_tasks = 2

\* C16: num_tasks never increases; a call that partitions leaves it at the
\* smaller of its value before the call and the number of arguments, and
\* builds the mapping over that count, also when more arguments are given
\* than an earlier call left tasks.
C16_TaskCountNeverGrows ==
    [][/\ num_tasks' <= num_tasks
       /\ last'.op \in JobOps =>
             /\ num_tasks' = (IF Len(last'.args) < num_tasks THEN Len(last'.args) ELSE num_tasks)
             /\ DOMAIN task2args_map'.v = 0..(num_tasks' - 1)]_vars

C16_Witness ==
    /\ last.op = "create_job"
    /\ last.T = 0
    /\ Len(last.args) = 3
    /\ num_tasks = 0
    /\ task2args_map.v = <<>>

\* C17: a create_job, create_submit_job or map call without positional
\* arguments leaves num_tasks = 0, an empty mapping, the function and kwargs
\* bound, raises ValueError("Arguments mapping not set") in the python-script
\* step, does not run sbatch and writes neither artifact file.
C17_StateAfterNoArgs ==
    (last.op \in JobOps /\ last.args = <<>>) =>
        /\ num_tasks = 0
        /\ task2args_map = Some(<<>>)
        /\ task_function \in Functions
        /\ kwargs.some
        /\ last.err = "ValueError: Arguments mapping not set"
        /\ last.steps = <<"bind", "map">>
        /\ last.rc = -1
        /\ last.warned = (IF last.T >= 1 THEN 1 ELSE 0)

C17_NoArgsWritesNothing ==
    [][(last'.op \in JobOps /\ last'.args = <<>>) => UNCHANGED <<pyFile, slurmFile>>]_vars

C17_NoArgsNoJob == []C17_StateAfterNoArgs /\ C17_NoArgsWritesNothing

C17_Witness ==
    /\ last.op = "create_submit_job"
    /\ last.args = <<>>
    /\ last.T = 2
    /\ num_tasks = 0
    /\ task_function = "len"
    /\ ~pyFile.exists
    /\ ~slurmFile.exists

\* C18: create_python_script, create_slurm_script and submit_job leave
\* num_tasks, the bound function, kwargs, the mapping and the job description
\* unchanged; the partition step changes only the mapping and, only when there
\* are fewer arguments than tasks, num_tasks; the script names and resource
\* fields are those of the constructor throughout.
C18_PartitionFrame ==
    \A args \in ArgLists :
        LET s2 == create_task2args_mapping(Cur, args) IN
        /\ s2.task_function = task_function
        /\ s2.kwargs = kwargs
        /\ s2.jobspec = jobspec
        /\ s2.pyFile = pyFile
        /\ s2.slurmFile = slurmFile
        /\ s2.err = ""
        /\ s2.num_tasks # num_tasks => (Len(args) < num_tasks /\ s2.num_tasks = Len(args))

C18_JobSpecFixed ==
    /\ jobspec \in {JobSpec(n[1], n[2]) : n \in NameArgs}
    /\ slurmFile.exists => (slurmFile.script = jobspec.python_script_name
                            /\ slurmFile.directives = jobspec.resources)

C18_OperationFrame ==
    [][/\ jobspec' = jobspec
       /\ last'.op \in {"create_python_script", "create_slurm_script", "submit_job"} =>
             UNCHANGED <<num_tasks, task_function, kwargs, task2args_map>>
       /\ last'.op \in JobOps =>
             (num_tasks' # num_tasks => (Len(last'.args) < num_tasks /\ num_tasks' = Len(last'.args)))]_vars

C18_Frame == [](C18_PartitionFrame /\ C18_JobSpecFixed) /\ C18_OperationFrame

C18_Witness ==
    /\ last.op = "create_slurm_script"
    /\ last.err = ""
    /\ last.again
    /\ num_tasks = 2
    /\ task_function = "f"
    /\ jobspec.python_script_name = "job_uid.py"
    /\ slurmFile.script = "job_uid.py"

====
